---- MODULE Spec2Model ----
(* Construct-tree model of the two CDK programs of the repository:          *)
(*   - lib/SplitItUI-cdk-stack.ts  (WebAppStack), its entry point            *)
(*     bin/SplitItUI-cdk.ts and its test,                                    *)
(*   - GitAuthEngine-cdk-stack.ts  (MyStack, six wrapper constructs and the  *)
(*     module's top-level code).                                             *)
(* A run executes one program statement by statement.  Every `new X(scope,   *)
(* id, props)` adds a node to the construct tree or raises.                  *)
EXTENDS Integers, Sequences, FiniteSets, TLC

VARIABLES entry, stackId, binding, pc, status, err, tree, refs, this, props,
          postOps, synthCount, template

vars == <<entry, stackId, binding, pc, status, err, tree, refs, this, props,
          postOps, synthCount, template>>

Undefined == "undefined"
NoError == "none"

----------------------------------------------------------------------------
(* Property values.  Every value is a pair <<kind, sequence of strings>>.   *)

Lit(s) == <<"lit", <<s>>>>
List(ss) == <<"list", ss>>
Ref(p) == <<"ref", <<p>>>>
RefList(ps) == <<"reflist", ps>>
Attr(p, a) == <<"attr", <<p, a>>>>
AttrList(p, a) == <<"attrlist", <<p, a>>>>
S3Origin(p) == <<"S3Origin", <<p>>>>
LambdaIntegration(p) == <<"LambdaIntegration", <<p>>>>
CodeFromAsset(s) == <<"Code.fromAsset", <<s>>>>
NoProps == <<>>

\* The construct paths a value refers to.
ValueRefs(v) ==
  IF v[1] \in {"ref", "attr", "attrlist", "S3Origin", "LambdaIntegration"}
    THEN {v[2][1]}
    ELSE IF v[1] = "reflist" THEN {v[2][i] : i \in 1..Len(v[2])} ELSE {}

\* `a ?? b`
Coalesce(p, k, d) == IF k \in DOMAIN p THEN p[k] ELSE d

----------------------------------------------------------------------------
(* The construct tree.                                                      *)

RootPath == ""
ChildPath(scope, id) == IF scope = RootPath THEN id ELSE scope \o "/" \o id
Node(scope, id, type, p) == [scope |-> scope, id |-> id, type |-> type, props |-> p]
PathOf(n) == ChildPath(n.scope, n.id)
Exists(scope, id) == \E i \in 1..Len(tree) : tree[i].scope = scope /\ tree[i].id = id
NodeRefs(n) == UNION {ValueRefs(n.props[k]) : k \in DOMAIN n.props}
NodesOfType(t) == {i \in 1..Len(tree) : tree[i].type = t}

\* Node types that are no CloudFormation resource.
StructuralTypes == {"App", "Stack", "Construct"}

\* The resources section of the template synthesized from the tree.
Resources(t) == {[type |-> t[i].type, props |-> t[i].props] :
                   i \in {j \in 1..Len(t) : t[j].type \notin StructuralTypes \cup {"CfnOutput"}}}

----------------------------------------------------------------------------
(* Module lib/SplitItUI-cdk-stack and its importers.                        *)

\* Variant: the module also exports the class under the name its importers use.
ModuleExports_Aliased ==
  ("WebAppStack" :> "WebAppStack" @@ "cdk_Stack" :> "WebAppStack")

\* The names the module exports, each with the class it is bound to.
ModuleExports == ("WebAppStack" :> "WebAppStack")

\* import { name } from module   /   import name from module
ResolveImport(kind, name) ==
  LET key == IF kind = "default" THEN "default" ELSE name
  IN IF key \in DOMAIN ModuleExports THEN ModuleExports[key] ELSE Undefined

ImportKind(e) == IF e = "test" THEN "default" ELSE "named"
ImportedName == "cdk_Stack"

----------------------------------------------------------------------------
(* Programs.                                                                 *)

WebAppStackBody ==
  <<"WebAppStack.super", "WebAppStack.webAppS3", "WebAppStack.contentDelivery",
    "WebAppStack.WebsiteURL">>

\* Variant: the function wrapper is constructed before the log group wrapper.
MyStackBody_LambdaFirst ==
  <<"MyStack.super", "MyStack.vpc", "MyStack.securityGroup",
    "DynamoDBConstruct.super", "DynamoDBConstruct.table",
    "CognitoConstruct.super", "CognitoConstruct.userPool", "CognitoConstruct.userPoolClient",
    "ElastiCacheConstruct.super", "ElastiCacheConstruct.cacheCluster",
    "AuthLambdaConstruct.super", "AuthLambdaConstruct.lambdaFunction",
    "AuthLambdaConstruct.addToRolePolicy",
    "CloudWatchConstruct.super", "CloudWatchConstruct.logGroup",
    "ApiGatewayConstruct.super", "ApiGatewayConstruct.apiGateway">>

MyStackBody ==
  <<"MyStack.super", "MyStack.vpc", "MyStack.securityGroup",
    "DynamoDBConstruct.super", "DynamoDBConstruct.table",
    "CognitoConstruct.super", "CognitoConstruct.userPool", "CognitoConstruct.userPoolClient",
    "ElastiCacheConstruct.super", "ElastiCacheConstruct.cacheCluster",
    "CloudWatchConstruct.super", "CloudWatchConstruct.logGroup",
    "AuthLambdaConstruct.super", "AuthLambdaConstruct.lambdaFunction",
    "AuthLambdaConstruct.addToRolePolicy",
    "ApiGatewayConstruct.super", "ApiGatewayConstruct.apiGateway">>

\* The constructor body a `new` of the imported binding runs.
BodyOf(class) == IF class = "WebAppStack" THEN WebAppStackBody ELSE <<>>

\* Variant: app.synth() is called before the stack is instantiated.
GitProgram_SynthFirst == <<"newApp", "synth">> \o MyStackBody

\* Top-level code of GitAuthEngine-cdk-stack.ts.
GitProgram == <<"newApp">> \o MyStackBody \o <<"synth">>
\* bin/SplitItUI-cdk.ts.
BinProgram(b) == <<"import", "newApp", "new cdk_Stack">> \o BodyOf(b)
\* The test of SplitItUI-cdk.
TestProgram(b) == <<"import", "newApp", "new cdk_Stack">> \o BodyOf(b) \o <<"fromStack">>
\* The test's scenario on the class the module does export.
DirectProgram == <<"newApp">> \o WebAppStackBody \o <<"fromStack">>

Entries == {"git", "bin", "test", "direct"}

ProgramOf(e, b) ==
  CASE e = "git" -> GitProgram
    [] e = "bin" -> BinProgram(b)
    [] e = "test" -> TestProgram(b)
    [] e = "direct" -> DirectProgram

Program == ProgramOf(entry, binding)
Stmt == IF status = "running" /\ pc <= Len(Program) THEN Program[pc] ELSE "halt"

\* The id each caller gives the stack it instantiates.
StackIds(e) ==
  CASE e = "git" -> {"MyStack"}
    [] e = "bin" -> {"CdkStack"}
    [] e = "test" -> {"MyTestStack"}
    [] e = "direct" -> {"CdkStack", "MyTestStack", "WebAppStack"}

\* Errors an SDK constructor may raise.
SdkErrors == {"ValidationError", "NamingConflict", "AssetError"}

LocalNames ==
  {"app", "stack", "vpc", "securityGroup", "dynamoDb", "dynamoDb.table",
   "cognitoUserPool", "cognitoUserPool.userPool", "cognitoUserPool.userPoolClient",
   "elastiCacheCluster", "elastiCacheCluster.cacheCluster",
   "cloudWatchLogGroup", "cloudWatchLogGroup.logGroup",
   "authLambda", "authLambda.lambdaFunction", "webAppS3", "contentDelivery"}

Init ==
  /\ entry \in Entries
  /\ stackId \in StackIds(entry)
  /\ binding = Undefined
  /\ pc = 1
  /\ status = "running"
  /\ err = NoError
  /\ tree = <<>>
  /\ refs = [n \in LocalNames |-> Undefined]
  /\ this = Undefined
  /\ props = NoProps
  /\ postOps = <<>>
  /\ synthCount = 0
  /\ template = {}

----------------------------------------------------------------------------
(* Statement execution.                                                      *)

\* Variant: the error is caught and recorded, and the run carries on.
Raise_Caught(e) ==
  /\ err' = e
  /\ pc' = pc + 1
  /\ status' = IF pc + 1 > Len(ProgramOf(entry, binding)) THEN "done" ELSE "running"
  /\ UNCHANGED <<entry, stackId, binding, tree, refs, this, props, postOps,
                 synthCount, template>>

\* An uncaught throw: the run stops where it is.
Raise(e) ==
  /\ err' = e
  /\ status' = "raised"
  /\ UNCHANGED <<entry, stackId, binding, pc, tree, refs, this, props, postOps,
                 synthCount, template>>

\* Control passes to the next statement.
Advance ==
  /\ pc' = pc + 1
  /\ status' = IF pc + 1 > Len(Program) THEN "done" ELSE "running"

\* How evaluating `new X(scope, id, ...)` can end, given the locals it reads.
Outcomes(needs, scope, id) ==
  IF \E n \in needs : refs[n] = Undefined THEN {"ReferenceError"}
  ELSE IF Exists(scope, id) THEN {"DuplicateId"}
  ELSE {"ok"} \cup SdkErrors

\* new X(scope, id, p), binding locals and fields on return.
New(needs, scope, id, type, p, bound, newThis, newProps) ==
  \E o \in Outcomes(needs, scope, id) :
    IF o = "ok"
      THEN /\ tree' = Append(tree, Node(scope, id, type, p))
           /\ refs' = bound @@ refs
           /\ this' = newThis
           /\ props' = newProps
           /\ Advance
           /\ UNCHANGED <<entry, stackId, binding, err, postOps, synthCount, template>>
      ELSE Raise(o)

Import ==
  /\ Stmt = "import"
  /\ binding' = ResolveImport(ImportKind(entry), ImportedName)
  /\ pc' = pc + 1
  /\ UNCHANGED <<entry, stackId, status, err, tree, refs, this, props, postOps,
                 synthCount, template>>

NewApp ==
  /\ Stmt = "newApp"
  /\ tree' = Append(tree, Node(RootPath, "", "App", NoProps))
  /\ refs' = ("app" :> RootPath) @@ refs
  /\ Advance
  /\ UNCHANGED <<entry, stackId, binding, err, this, props, postOps, synthCount, template>>

\* new cdk_Stack(app, id): the imported binding is called as a constructor.
NewImported ==
  /\ Stmt = "new cdk_Stack"
  /\ IF binding = Undefined
       THEN Raise("TypeError")
       ELSE /\ Advance
            /\ UNCHANGED <<entry, stackId, binding, err, tree, refs, this, props,
                           postOps, synthCount, template>>

----------------------------------------------------------------------------
(* WebAppStack.                                                              *)

\* Variant: the bucket is left to an auto-generated name.
BucketProps_Unnamed == ("removalPolicy" :> Lit("DESTROY"))

BucketProps ==
  ("bucketName" :> Lit("my-webapp-bucket") @@ "removalPolicy" :> Lit("DESTROY"))

DistributionProps(webAppS3) == ("defaultBehavior.origin" :> S3Origin(webAppS3))

OutputProps(contentDelivery) ==
  ("value" :> Attr(contentDelivery, "distributionDomainName"))

WebAppStack_super ==
  /\ Stmt = "WebAppStack.super"
  /\ New({"app"}, refs["app"], stackId, "Stack", NoProps,
         ("stack" :> ChildPath(refs["app"], stackId)), this, props)

WebAppStack_webAppS3 ==
  /\ Stmt = "WebAppStack.webAppS3"
  /\ New({"stack"}, refs["stack"], "WebAppS3", "AWS::S3::Bucket", BucketProps,
         ("webAppS3" :> ChildPath(refs["stack"], "WebAppS3")), this, props)

WebAppStack_contentDelivery ==
  /\ Stmt = "WebAppStack.contentDelivery"
  /\ New({"stack", "webAppS3"}, refs["stack"], "ContentDelivery",
         "AWS::CloudFront::Distribution", DistributionProps(refs["webAppS3"]),
         ("contentDelivery" :> ChildPath(refs["stack"], "ContentDelivery")), this, props)

WebAppStack_WebsiteURL ==
  /\ Stmt = "WebAppStack.WebsiteURL"
  /\ New({"stack", "contentDelivery"}, refs["stack"], "WebsiteURL", "CfnOutput",
         OutputProps(refs["contentDelivery"]), <<>>, this, props)

\* Template.fromStack(stack) synthesizes the app and reads the stack's template.
FromStack ==
  /\ Stmt = "fromStack"
  /\ synthCount' = synthCount + 1
  /\ template' = Resources(tree)
  /\ Advance
  /\ UNCHANGED <<entry, stackId, binding, err, tree, refs, this, props, postOps>>

\* template.hasResourceProperties(type, expected)
HasResourceProperties(t, type, expected) ==
  \E r \in t : /\ r.type = type
               /\ \A k \in DOMAIN expected : k \in DOMAIN r.props /\ r.props[k] = expected[k]

\* template.resourceCountIs(type, n)
ResourceCountIs(t, type, n) == Cardinality({r \in t : r.type = type}) = n

NextWeb ==
  \/ Import \/ NewApp \/ NewImported \/ FromStack
  \/ WebAppStack_super \/ WebAppStack_webAppS3 \/ WebAppStack_contentDelivery
  \/ WebAppStack_WebsiteURL

----------------------------------------------------------------------------
(* MyStack and the wrapper constructs.                                       *)

\* The string a literal prop holds, or the path a reference prop holds.
Str(v) == v[2][1]

VpcProps == ("maxAzs" :> Lit("3") @@ "natGateways" :> Lit("1"))

SecurityGroupProps(vpc) == ("vpc" :> Ref(vpc) @@ "allowAllOutbound" :> Lit("true"))

\* The props MyStack passes to each wrapper.
DynamoDBCallProps ==
  ("tableName" :> Lit("MyTable") @@ "partitionKey.name" :> Lit("ID")
   @@ "partitionKey.type" :> Lit("STRING"))

\* Variant: the client is given the user pool's name.
CognitoCallProps_SameName ==
  ("userPoolName" :> Lit("MyUserPool") @@ "clientName" :> Lit("MyUserPool"))

CognitoCallProps ==
  ("userPoolName" :> Lit("MyUserPool") @@ "clientName" :> Lit("MyUserPoolClient"))

ElastiCacheCallProps(vpc, securityGroup) ==
  ("vpc" :> Ref(vpc) @@ "securityGroup" :> Ref(securityGroup)
   @@ "cacheClusterId" :> Lit("MyCacheCluster"))

CloudWatchCallProps == ("logGroupName" :> Lit("MyLogGroup"))

\* Variant: the table and log group entries are exchanged.
LambdaEnvironment_Swapped(table, userPool, cacheCluster, logGroup) ==
  ("environment.DYNAMODB_TABLE" :> Attr(logGroup, "logGroupName")
   @@ "environment.USER_POOL_ID" :> Attr(userPool, "userPoolId")
   @@ "environment.CACHE_CLUSTER_ID" :> Attr(cacheCluster, "ref")
   @@ "environment.LOG_GROUP_NAME" :> Attr(table, "tableName"))

LambdaEnvironment(table, userPool, cacheCluster, logGroup) ==
  ("environment.DYNAMODB_TABLE" :> Attr(table, "tableName")
   @@ "environment.USER_POOL_ID" :> Attr(userPool, "userPoolId")
   @@ "environment.CACHE_CLUSTER_ID" :> Attr(cacheCluster, "ref")
   @@ "environment.LOG_GROUP_NAME" :> Attr(logGroup, "logGroupName"))

AuthLambdaCallProps(vpc, securityGroup, table, userPool, cacheCluster, logGroup) ==
  ("functionName" :> Lit("AuthLambdaFunction") @@ "handler" :> Lit("index.handler")
   @@ "codePath" :> Lit("path/to/your/code") @@ "vpc" :> Ref(vpc)
   @@ "securityGroups" :> RefList(<<securityGroup>>)
   @@ LambdaEnvironment(table, userPool, cacheCluster, logGroup))

ApiGatewayCallProps(lambdaFunction) ==
  ("restApiName" :> Lit("MyApiGateway") @@ "apigatewayName" :> Lit("MyApiGatewayName")
   @@ "allowedOrigins" :> List(<<"*">>) @@ "lambdaFunction" :> Ref(lambdaFunction))

\* The props each wrapper passes to the SDK constructor it calls.
\* Variant: the table name is derived from the prop instead of forwarded.
TableProps_Derived(p) ==
  ("tableName" :> Lit(Str(p["tableName"]) \o "-table")
   @@ "partitionKey.name" :> p["partitionKey.name"]
   @@ "partitionKey.type" :> p["partitionKey.type"] @@ "removalPolicy" :> Lit("DESTROY"))

TableProps(p) ==
  ("tableName" :> p["tableName"] @@ "partitionKey.name" :> p["partitionKey.name"]
   @@ "partitionKey.type" :> p["partitionKey.type"] @@ "removalPolicy" :> Lit("DESTROY"))

UserPoolProps(p) ==
  ("userPoolName" :> p["userPoolName"] @@ "selfSignUpEnabled" :> Lit("true"))

UserPoolClientProps(userPool) == ("userPool" :> Ref(userPool))

CacheClusterProps(p) ==
  ("vpcSecurityGroupIds" :> AttrList(Str(p["securityGroup"]), "securityGroupId")
   @@ "cacheNodeType" :> Lit("cache.t2.micro") @@ "engine" :> Lit("redis")
   @@ "numCacheNodes" :> Lit("1") @@ "clusterName" :> p["cacheClusterId"])

LogGroupProps(p) ==
  ("logGroupName" :> p["logGroupName"] @@ "retention" :> Lit("ONE_MONTH")
   @@ "removalPolicy" :> Lit("DESTROY"))

EnvironmentOf(p) ==
  [k \in {j \in DOMAIN p : j \in {"environment.DYNAMODB_TABLE", "environment.USER_POOL_ID",
                                  "environment.CACHE_CLUSTER_ID", "environment.LOG_GROUP_NAME"}}
     |-> p[k]]

FunctionProps(p) ==
  ("runtime" :> Lit("PYTHON_3_9") @@ "handler" :> p["handler"]
   @@ "code" :> CodeFromAsset(Str(p["codePath"])) @@ "vpc" :> p["vpc"]
   @@ "securityGroups" :> p["securityGroups"] @@ EnvironmentOf(p))

PolicyStatement ==
  [actions |-> <<"dynamodb:*", "cognito-idp:*", "elasticache:*", "logs:*">>,
   resources |-> <<"*">>]

RestApiProps(p) ==
  ("restApiName" :> p["restApiName"]
   @@ "defaultCorsPreflightOptions.allowHeaders" :>
        List(<<"Content-Type", "X-Amz-Date", "Authorization", "X-Api-Key">>)
   @@ "defaultCorsPreflightOptions.allowMethods" :> List(<<"POST">>)
   @@ "defaultCorsPreflightOptions.allowCredentials" :> Lit("true")
   @@ "defaultCorsPreflightOptions.allowOrigins" :> p["allowedOrigins"]
   @@ "description" :> Coalesce(p, "description", Lit(""))
   @@ "endpointExportName" :> Lit("ServiceRequestAPI")
   @@ "deployOptions.stageName" :> Lit("prod")
   @@ "deployOptions.loggingLevel" :> Lit("INFO")
   @@ "deployOptions.dataTraceEnabled" :> Lit("true")
   @@ "deployOptions.metricsEnabled" :> Lit("true")
   @@ "cloudWatchRole" :> Lit("true")
   @@ "cloudWatchRoleRemovalPolicy" :> Lit("DESTROY")
   @@ "defaultIntegration" :> LambdaIntegration(Str(p["lambdaFunction"]))
   @@ "failOnWarnings" :> Lit("true")
   @@ "retainDeployments" :> Lit("false")
   @@ "defaultMethodOptions.methodResponses" :> List(<<"200">>)
   @@ "defaultMethodOptions.operationName" :> Lit("ServiceRequest")
   @@ "defaultMethodOptions.requestParameters" :>
        List(<<"method.request.header.Authorization", "method.request.header.Content-Type",
               "method.request.header.Custom-Header", "method.request.querystring.myParam">>)
   @@ "defaultMethodOptions.authorizationType" :> Lit("NONE"))

MyStack_super ==
  /\ Stmt = "MyStack.super"
  /\ New({"app"}, refs["app"], stackId, "Stack", NoProps,
         ("stack" :> ChildPath(refs["app"], stackId)), this, props)

MyStack_vpc ==
  /\ Stmt = "MyStack.vpc"
  /\ New({"stack"}, refs["stack"], "Vpc", "AWS::EC2::VPC", VpcProps,
         ("vpc" :> ChildPath(refs["stack"], "Vpc")), this, props)

MyStack_securityGroup ==
  /\ Stmt = "MyStack.securityGroup"
  /\ New({"stack", "vpc"}, refs["stack"], "SecurityGroup", "AWS::EC2::SecurityGroup",
         SecurityGroupProps(refs["vpc"]),
         ("securityGroup" :> ChildPath(refs["stack"], "SecurityGroup")), this, props)

\* new W(this, id, callProps) up to and including W's super(scope, id).
WrapperSuper(stmt, needs, id, callProps) ==
  /\ Stmt = stmt
  /\ New(needs \cup {"stack"}, refs["stack"], id, "Construct", NoProps, <<>>,
         ChildPath(refs["stack"], id), callProps)

\* this.field = new X(this, id, p) inside a wrapper; `bound` names what it binds.
\* The wrapper's constructor returns: its local in MyStack is bound.
Returned(local) == (local :> this)

DynamoDBConstruct_super ==
  WrapperSuper("DynamoDBConstruct.super", {}, "DynamoDBConstruct", DynamoDBCallProps)

DynamoDBConstruct_table ==
  /\ Stmt = "DynamoDBConstruct.table"
  /\ New({}, this, Str(props["tableName"]), "AWS::DynamoDB::Table", TableProps(props),
         ("dynamoDb.table" :> ChildPath(this, Str(props["tableName"])))
           @@ Returned("dynamoDb"), this, props)

CognitoConstruct_super ==
  WrapperSuper("CognitoConstruct.super", {}, "CognitoConstruct", CognitoCallProps)

CognitoConstruct_userPool ==
  /\ Stmt = "CognitoConstruct.userPool"
  /\ New({}, this, Str(props["userPoolName"]), "AWS::Cognito::UserPool",
         UserPoolProps(props),
         ("cognitoUserPool.userPool" :> ChildPath(this, Str(props["userPoolName"]))),
         this, props)

CognitoConstruct_userPoolClient ==
  /\ Stmt = "CognitoConstruct.userPoolClient"
  /\ New({"cognitoUserPool.userPool"}, this, Str(props["clientName"]),
         "AWS::Cognito::UserPoolClient",
         UserPoolClientProps(refs["cognitoUserPool.userPool"]),
         ("cognitoUserPool.userPoolClient" :> ChildPath(this, Str(props["clientName"])))
           @@ Returned("cognitoUserPool"), this, props)

ElastiCacheConstruct_super ==
  WrapperSuper("ElastiCacheConstruct.super", {"vpc", "securityGroup"},
               "ElastiCacheConstruct",
               ElastiCacheCallProps(refs["vpc"], refs["securityGroup"]))

ElastiCacheConstruct_cacheCluster ==
  /\ Stmt = "ElastiCacheConstruct.cacheCluster"
  /\ New({}, this, Str(props["cacheClusterId"]), "AWS::ElastiCache::CacheCluster",
         CacheClusterProps(props),
         ("elastiCacheCluster.cacheCluster" :> ChildPath(this, Str(props["cacheClusterId"])))
           @@ Returned("elastiCacheCluster"), this, props)

CloudWatchConstruct_super ==
  WrapperSuper("CloudWatchConstruct.super", {}, "CloudWatchConstruct", CloudWatchCallProps)

CloudWatchConstruct_logGroup ==
  /\ Stmt = "CloudWatchConstruct.logGroup"
  /\ New({}, this, Str(props["logGroupName"]), "AWS::Logs::LogGroup", LogGroupProps(props),
         ("cloudWatchLogGroup.logGroup" :> ChildPath(this, Str(props["logGroupName"])))
           @@ Returned("cloudWatchLogGroup"), this, props)

AuthLambdaConstruct_super ==
  WrapperSuper("AuthLambdaConstruct.super",
               {"vpc", "securityGroup", "dynamoDb", "dynamoDb.table", "cognitoUserPool",
                "cognitoUserPool.userPool", "elastiCacheCluster",
                "elastiCacheCluster.cacheCluster", "cloudWatchLogGroup",
                "cloudWatchLogGroup.logGroup"},
               "AuthLambdaConstruct",
               AuthLambdaCallProps(refs["vpc"], refs["securityGroup"], refs["dynamoDb.table"],
                                   refs["cognitoUserPool.userPool"],
                                   refs["elastiCacheCluster.cacheCluster"],
                                   refs["cloudWatchLogGroup.logGroup"]))

AuthLambdaConstruct_lambdaFunction ==
  /\ Stmt = "AuthLambdaConstruct.lambdaFunction"
  /\ New({}, this, Str(props["functionName"]), "AWS::Lambda::Function", FunctionProps(props),
         ("authLambda.lambdaFunction" :> ChildPath(this, Str(props["functionName"]))),
         this, props)

\* this.lambdaFunction.addToRolePolicy(new iam.PolicyStatement({...}))
AuthLambdaConstruct_addToRolePolicy ==
  /\ Stmt = "AuthLambdaConstruct.addToRolePolicy"
  /\ \E o \in (IF refs["authLambda.lambdaFunction"] = Undefined
                 THEN {"TypeError"} ELSE {"ok"} \cup SdkErrors) :
       IF o = "ok"
         THEN /\ postOps' = Append(postOps, [by |-> this,
                                             on |-> refs["authLambda.lambdaFunction"],
                                             op |-> "addToRolePolicy",
                                             arg |-> PolicyStatement])
              /\ refs' = Returned("authLambda") @@ refs
              /\ Advance
              /\ UNCHANGED <<entry, stackId, binding, err, tree, this, props,
                             synthCount, template>>
         ELSE Raise(o)

ApiGatewayConstruct_super ==
  WrapperSuper("ApiGatewayConstruct.super", {"authLambda", "authLambda.lambdaFunction"},
               "ApiGatewayConstruct", ApiGatewayCallProps(refs["authLambda.lambdaFunction"]))

ApiGatewayConstruct_apiGateway ==
  /\ Stmt = "ApiGatewayConstruct.apiGateway"
  /\ New({}, this, Str(props["apigatewayName"]), "AWS::ApiGateway::RestApi",
         RestApiProps(props), <<>>, this, props)

\* app.synth()
Synth ==
  /\ Stmt = "synth"
  /\ synthCount' = synthCount + 1
  /\ template' = Resources(tree)
  /\ Advance
  /\ UNCHANGED <<entry, stackId, binding, err, tree, refs, this, props, postOps>>

NextGit ==
  \/ MyStack_super \/ MyStack_vpc \/ MyStack_securityGroup
  \/ DynamoDBConstruct_super \/ DynamoDBConstruct_table
  \/ CognitoConstruct_super \/ CognitoConstruct_userPool \/ CognitoConstruct_userPoolClient
  \/ ElastiCacheConstruct_super \/ ElastiCacheConstruct_cacheCluster
  \/ CloudWatchConstruct_super \/ CloudWatchConstruct_logGroup
  \/ AuthLambdaConstruct_super \/ AuthLambdaConstruct_lambdaFunction
  \/ AuthLambdaConstruct_addToRolePolicy
  \/ ApiGatewayConstruct_super \/ ApiGatewayConstruct_apiGateway
  \/ Synth

Next == NextWeb \/ NextGit

Spec == Init /\ [][Next]_vars

\* The program is one synchronous thread: a statement that can run does run.
FairSpec == Spec /\ WF_vars(Next)

----------------------------------------------------------------------------
(* Vocabulary of the properties.                                             *)

\* Position of the last statement of the stack constructor in the program.
BodyEnd ==
  CASE entry = "git" -> 1 + Len(MyStackBody)
    [] entry = "direct" -> 1 + Len(WebAppStackBody)
    [] OTHER -> 3 + Len(BodyOf(binding))

StackClass ==
  CASE entry = "git" -> "MyStack"
    [] entry = "direct" -> "WebAppStack"
    [] OTHER -> binding

\* The stack constructor has returned normally.
StackConstructed == err = NoError /\ StackClass # Undefined /\ pc > BodyEnd

Count(t) == Cardinality(NodesOfType(t))
The(t) == tree[CHOOSE i \in NodesOfType(t) : TRUE]
Paths == {PathOf(tree[i]) : i \in 1..Len(tree)}
Before(a, b) == \A j \in NodesOfType(b) : \E i \in NodesOfType(a) : i < j
Ended == status \in {"done", "raised"}

\* Errors that come out of a stack constructor.
ConstructionErrors == SdkErrors \cup {"DuplicateId", "ReferenceError"}

----------------------------------------------------------------------------
\* C1: constructing the exported stack class under a fresh App and synthesizing
\* its template yields a template with an AWS::SQS::Queue whose
\* VisibilityTimeout is 300 and exactly one AWS::SNS::Topic.
C1_TemplateHasQueueAndTopic ==
  (entry \in {"test", "direct"} /\ StackConstructed /\ synthCount = 1) =>
     /\ HasResourceProperties(template, "AWS::SQS::Queue", ("VisibilityTimeout" :> Lit("300")))
     /\ ResourceCountIs(template, "AWS::SNS::Topic", 1)

C4_MyStackWiring ==
  (entry = "git" /\ StackConstructed) =>
     /\ \A t \in {"AWS::EC2::VPC", "AWS::EC2::SecurityGroup", "AWS::DynamoDB::Table",
                  "AWS::Cognito::UserPool", "AWS::ElastiCache::CacheCluster",
                  "AWS::Logs::LogGroup", "AWS::Lambda::Function",
                  "AWS::ApiGateway::RestApi"} :
          /\ Count(t) = 1
          /\ \/ The(t).scope = stackId
             \/ \E i \in NodesOfType("Construct") :
                  tree[i].scope = stackId /\ The(t).scope = PathOf(tree[i])
     /\ The("AWS::DynamoDB::Table").props["tableName"] = Lit("MyTable")
     /\ The("AWS::DynamoDB::Table").props["partitionKey.name"] = Lit("ID")
     /\ LET f == The("AWS::Lambda::Function").props
        IN /\ f["environment.DYNAMODB_TABLE"]
                = Attr(PathOf(The("AWS::DynamoDB::Table")), "tableName")
           /\ f["environment.USER_POOL_ID"]
                = Attr(PathOf(The("AWS::Cognito::UserPool")), "userPoolId")
           /\ f["environment.CACHE_CLUSTER_ID"]
                = Attr(PathOf(The("AWS::ElastiCache::CacheCluster")), "ref")
           /\ f["environment.LOG_GROUP_NAME"]
                = Attr(PathOf(The("AWS::Logs::LogGroup")), "logGroupName")
           /\ f["vpc"] = Ref(PathOf(The("AWS::EC2::VPC")))
           /\ f["securityGroups"] = RefList(<<PathOf(The("AWS::EC2::SecurityGroup"))>>)
     /\ The("AWS::ApiGateway::RestApi").props["defaultIntegration"]
          = LambdaIntegration(PathOf(The("AWS::Lambda::Function")))

C4_Witness == entry = "git" /\ StackConstructed /\ Count("AWS::ApiGateway::RestApi") = 1

\* C5: the stack module exports only WebAppStack; the test's default import
\* and the entry point's named import of cdk_Stack bind no exported class.
C5_ImportsBindNothing ==
  /\ DOMAIN ModuleExports = {"WebAppStack"}
  /\ (entry \in {"bin", "test"} /\ pc > 1) =>
        /\ binding = Undefined
        /\ \A k \in DOMAIN ModuleExports : binding # ModuleExports[k]
        /\ Count("Stack") = 0

C5_Witness == entry = "test" /\ status = "raised" /\ err = "TypeError"

\* C6: construction is one sequential pass: every construct exists before any
\* construct whose properties reference it (VPC before security group; VPC and
\* security group before cache cluster and function; table, user pool, cache
\* cluster and log group before the function; function before the gateway)
\* and synthesis runs only after the last construct has been added.
C6_CreatedBeforeReferenced ==
  /\ [](/\ \A i \in 1..Len(tree) : \A p \in NodeRefs(tree[i]) :
              \E j \in 1..(i - 1) : PathOf(tree[j]) = p
        /\ \A k \in DOMAIN props : ValueRefs(props[k]) \subseteq Paths
        /\ err # "ReferenceError"
        /\ (entry = "git" =>
              /\ Before("AWS::EC2::VPC", "AWS::EC2::SecurityGroup")
              /\ \A b \in {"AWS::ElastiCache::CacheCluster", "AWS::Lambda::Function"} :
                   Before("AWS::EC2::VPC", b) /\ Before("AWS::EC2::SecurityGroup", b)
              /\ \A a \in {"AWS::DynamoDB::Table", "AWS::Cognito::UserPool",
                           "AWS::ElastiCache::CacheCluster", "AWS::Logs::LogGroup"} :
                   Before(a, "AWS::Lambda::Function")
              /\ Before("AWS::Lambda::Function", "AWS::ApiGateway::RestApi")
              /\ (synthCount > 0 =>
                    /\ StackConstructed
                    /\ tree[Len(tree)].type = "AWS::ApiGateway::RestApi"
                    /\ template = Resources(tree))))
  /\ [][/\ Len(tree') \in {Len(tree), Len(tree) + 1}
        /\ SubSeq(tree', 1, Len(tree)) = tree
        /\ (synthCount > 0 => tree' = tree)]_vars

C6_Witness == entry = "git" /\ synthCount = 1 /\ Count("AWS::ApiGateway::RestApi") = 1

Forwarded(t) ==
  CASE t = "AWS::DynamoDB::Table" ->
         {<<"tableName", "tableName">>, <<"partitionKey.name", "partitionKey.name">>,
          <<"partitionKey.type", "partitionKey.type">>}
    [] t = "AWS::Cognito::UserPool" -> {<<"userPoolName", "userPoolName">>}
    [] t = "AWS::ElastiCache::CacheCluster" -> {<<"clusterName", "cacheClusterId">>}
    [] t = "AWS::Logs::LogGroup" -> {<<"logGroupName", "logGroupName">>}
    [] t = "AWS::Lambda::Function" ->
         {<<"handler", "handler">>, <<"vpc", "vpc">>, <<"securityGroups", "securityGroups">>,
          <<"environment.DYNAMODB_TABLE", "environment.DYNAMODB_TABLE">>,
          <<"environment.USER_POOL_ID", "environment.USER_POOL_ID">>,
          <<"environment.CACHE_CLUSTER_ID", "environment.CACHE_CLUSTER_ID">>,
          <<"environment.LOG_GROUP_NAME", "environment.LOG_GROUP_NAME">>}
    [] t = "AWS::ApiGateway::RestApi" ->
         {<<"restApiName", "restApiName">>,
          <<"defaultCorsPreflightOptions.allowOrigins", "allowedOrigins">>}
    [] OTHER -> {}

\* The props key that names the resource.
IdKey(t) ==
  CASE t = "AWS::DynamoDB::Table" -> "tableName"
    [] t = "AWS::Cognito::UserPool" -> "userPoolName"
    [] t = "AWS::Cognito::UserPoolClient" -> "clientName"
    [] t = "AWS::ElastiCache::CacheCluster" -> "cacheClusterId"
    [] t = "AWS::Logs::LogGroup" -> "logGroupName"
    [] t = "AWS::Lambda::Function" -> "functionName"
    [] t = "AWS::ApiGateway::RestApi" -> "apigatewayName"

C8_ErrorsPropagate ==
  /\ [](err # NoError => status = "raised" /\ synthCount = 0 /\ template = {})
  /\ [][/\ err = NoError
        /\ (err' # NoError =>
              /\ tree' = tree /\ postOps' = postOps /\ pc' = pc
              /\ synthCount' = synthCount)]_vars

C8_Witness == entry \in {"git", "direct"} /\ err \in SdkErrors /\ Len(tree) > 2

\* C9: at every point of the construction of MyStack and WebAppStack no two
\* constructs under the same scope share an id, so no construct is refused as
\* a duplicate.
C9_UniqueIds ==
  /\ \A i, j \in 1..Len(tree) :
       (tree[i].scope = tree[j].scope /\ tree[i].id = tree[j].id) => i = j
  /\ err # "DuplicateId"
  /\ (entry = "git" /\ StackConstructed =>
        /\ {tree[i].id : i \in {k \in 1..Len(tree) : tree[k].scope = stackId}}
             = {"Vpc", "SecurityGroup", "DynamoDBConstruct", "CognitoConstruct",
                "ElastiCacheConstruct", "CloudWatchConstruct", "AuthLambdaConstruct",
                "ApiGatewayConstruct"}
        /\ Cardinality({k \in 1..Len(tree) : tree[k].scope = stackId}) = 8
        /\ Cardinality({k \in 1..Len(tree) :
                          tree[k].scope = ChildPath(stackId, "CognitoConstruct")}) = 2)

C9_Witness == StackConstructed /\ entry \in {"git", "direct"} /\ Len(tree) > 4

\* C10: the cache cluster is placed in the VPC passed as props.vpc and attached
\* to props.securityGroup, so that cache cluster and function are in the same
\* VPC and share the same security group.
C10_CacheClusterInVpc ==
  \A i \in NodesOfType("AWS::ElastiCache::CacheCluster") :
     /\ refs["securityGroup"] \in NodeRefs(tree[i])
     /\ refs["vpc"] \in NodeRefs(tree[i])
     /\ \A j \in NodesOfType("AWS::Lambda::Function") :
          /\ ValueRefs(tree[j].props["vpc"]) \subseteq NodeRefs(tree[i])
          /\ ValueRefs(tree[j].props["securityGroups"]) \subseteq NodeRefs(tree[i])
====
